---------------------------- MODULE Spec2Model ----------------------------
(***************************************************************************)
(* Model of src/app/main.py (Plex playlist reorder service).               *)
(*                                                                         *)
(* Text is a sequence of one-character strings.  Precomposed accented      *)
(* letters and the combining mark are the atoms "E_ACUTE", "e_acute" and   *)
(* "COMB_ACUTE".                                                           *)
(*                                                                         *)
(* Three specifications share the module:                                 *)
(*   SpecPlan   build_reorder_plan, one loop iteration per step            *)
(*   SpecParse  parse_apple_playlist_text on a bounded set of texts        *)
(*   Spec       the upload / preview / reorder handlers and the remote     *)
(*              playlists they act on (FairSpec adds weak fairness)        *)
(***************************************************************************)
EXTENDS Integers, Sequences, FiniteSets, TLC

(***************************************************************************)
(* Bounds of the model.                                                    *)
(***************************************************************************)
MaxImported == 3
MaxRemote == 3
MaxLines == 2
MaxUploads == 1
MaxDeletes == 1

(***************************************************************************)
(* State.                                                                  *)
(***************************************************************************)
VARIABLES
    \* build_reorder_plan, stepped (SpecPlan)
    plex_items,        \* playlist.items(): sequence of items
    imported_tracks,   \* the imported track sequence
    loop,              \* used_rating_keys, selected, missing
    k,                 \* imported tracks processed so far
    before,            \* the loop state before the latest iteration
    plan,              \* the returned plan, NoPlan until the function returns
    planPc,            \* "loop" | "done"
    \* parse_apple_playlist_text (SpecParse)
    raw_text,          \* the decoded text
    parsed,            \* the returned records
    parsePc,           \* "call" | "done"
    \* the service (Spec)
    UPLOAD_CACHE,      \* upload id -> parsed tracks
    remote,            \* playlist id -> items, in playlist order (the Plex server)
    planFiles,         \* upload id -> ids written to plex_reorder_<id>.plan
    pc,                \* "idle" | "planned" | "moving": the reorder request in flight
    req,               \* kind and payload of the latest request
    ordered_ids,       \* reorder: plan["new_order_ids"]
    playlist_items,    \* reorder: playlistItemID -> item, the live item map
    idx,               \* reorder: position in ordered_ids of the next iteration
    previous,          \* reorder: playlistItemID of previous, 0 for None
    resp,              \* the latest response
    startRemote,       \* history: the playlist's items when the request began
    liveStart,         \* history: the playlist's items when the move loop began
    removed,           \* history: ids other clients deleted during the request
    applied,           \* history: the successful moveItem calls, <<id, after>>
    calls,             \* history: moveItem calls issued by the request
    failed             \* history: a moveItem call of the request raised

(***************************************************************************)
(* Generic sequence helpers.                                               *)
(***************************************************************************)
Range(s) == {s[i] : i \in 1..Len(s)}

SeqsUpTo(S, n) == UNION {[1..m -> S] : m \in 0..n}

RECURSIVE Flatten(_)
Flatten(ss) == IF ss = <<>> THEN <<>> ELSE Head(ss) \o Flatten(Tail(ss))

(***************************************************************************)
(* normalize_text                                                          *)
(***************************************************************************)
Whitespace == {" ", "\t", "\n"}

\* unicodedata.normalize("NFKD", value), one character.
Decompose(ch) ==
    CASE ch = "E_ACUTE" -> <<"E", "COMB_ACUTE">>
      [] ch = "e_acute" -> <<"e", "COMB_ACUTE">>
      [] OTHER -> <<ch>>

\* unicodedata.combining(ch) # 0
Combining(ch) == ch = "COMB_ACUTE"

\* str.lower(), one character.
Lower(ch) ==
    CASE ch = "A" -> "a" [] ch = "B" -> "b" [] ch = "C" -> "c"
      [] ch = "E" -> "e" [] ch = "F" -> "f" [] ch = "H" -> "h"
      [] ch = "I" -> "i" [] ch = "L" -> "l" [] ch = "N" -> "n"
      [] ch = "O" -> "o" [] ch = "R" -> "r" [] ch = "S" -> "s"
      [] ch = "T" -> "t" [] ch = "Y" -> "y" [] ch = "Z" -> "z"
      [] OTHER -> ch

RECURSIVE LStrip(_)
LStrip(s) == IF s # <<>> /\ Head(s) \in Whitespace THEN LStrip(Tail(s)) ELSE s

RECURSIVE RStrip(_)
RStrip(s) ==
    IF s # <<>> /\ s[Len(s)] \in Whitespace
    THEN RStrip(SubSeq(s, 1, Len(s) - 1))
    ELSE s

\* str.strip()
Strip(s) == RStrip(LStrip(s))

\* re.sub(r"\s+", " ", value)
RECURSIVE CollapseWs(_)
CollapseWs(s) ==
    IF s = <<>> THEN <<>>
    ELSE IF Head(s) \in Whitespace
         THEN <<" ">> \o CollapseWs(LStrip(s))
         ELSE <<Head(s)>> \o CollapseWs(Tail(s))

normalize_text(value) ==
    IF value = <<>> THEN <<>>
    ELSE LET nfkd == Flatten([i \in 1..Len(value) |-> Decompose(value[i])])
             base == SelectSeq(nfkd, LAMBDA ch : ~Combining(ch))
             low  == [i \in 1..Len(base) |-> Lower(base[i])]
         IN  CollapseWs(Strip(low))

normalize_key(title, artist) == <<normalize_text(title), normalize_text(artist)>>

(***************************************************************************)
(* The remote catalog: the tracks a playlist item can refer to, by         *)
(* ratingKey.  An item of a playlist is (playlistItemID, ratingKey); two   *)
(* items of one playlist may refer to the same track.                      *)
(***************************************************************************)
Catalog ==
    <<  [title |-> <<"C","a","f","e">>, grandparentTitle |-> <<"A","n","n">>,
         originalTitle |-> <<>>],
        [title |-> <<"C","A","F","E_ACUTE"," ">>, grandparentTitle |-> <<>>,
         originalTitle |-> <<"B","o","b">>],
        [title |-> <<"c","a","f","e">>, grandparentTitle |-> <<"A","N","N">>,
         originalTitle |-> <<"B","o","b">>],
        [title |-> <<"S","o","l">>, grandparentTitle |-> <<"A","n","n">>,
         originalTitle |-> <<>>] >>

RatingKeys == 1..Len(Catalog)

NoItem == [playlistItemID |-> 0, ratingKey |-> 0]

\* getattr(item, "title", "") or ""
ItemTitle(item) == Catalog[item.ratingKey].title

\* getattr(item, "grandparentTitle", "") or getattr(item, "originalTitle", "") or ""
ItemArtist(item) ==
    IF Catalog[item.ratingKey].grandparentTitle # <<>>
    THEN Catalog[item.ratingKey].grandparentTitle
    ELSE Catalog[item.ratingKey].originalTitle

\* key = normalize_key(title, artist), computed once for each track of the
\* catalog as the code computes it once for each item (line 162).
RECURSIVE CatalogKeys(_)
CatalogKeys(rks) ==
    IF rks = <<>> THEN <<>>
    ELSE <<normalize_key(ItemTitle([ratingKey |-> Head(rks)]),
                         ItemArtist([ratingKey |-> Head(rks)]))>>
            \o CatalogKeys(Tail(rks))

ItemKeyTable == CatalogKeys([rk \in RatingKeys |-> rk])

ItemKey(item) == ItemKeyTable[item.ratingKey]

\* by_title_artist.get(key, []): the items of that key, in playlist order.
by_title_artist(items, key) ==
    SelectSeq(items, LAMBDA item : ItemKey(item) = key)

\* by_title.get(ntitle, []): the items of that normalized title, in playlist order.
by_title(items, ntitle) ==
    SelectSeq(items, LAMBDA item : ItemKey(item)[1] = ntitle)

\* for cand in bucket: if cand.ratingKey not in used: picked = cand; break
FirstUnused(bucket, used) ==
    LET free == SelectSeq(bucket, LAMBDA cand : cand.ratingKey \notin used)
    IN  IF free = <<>> THEN NoItem ELSE Head(free)

\* The candidate picked for one imported track (lines 171-186).
Pick(items, used, track) ==
    LET exact == FirstUnused(by_title_artist(items,
                                normalize_key(track.title, track.artist)), used)
    IN  IF exact # NoItem THEN exact
        ELSE FirstUnused(by_title(items, normalize_text(track.title)), used)

\* One iteration of the loop over tracks (lines 170-192).
\* st = [used_rating_keys, selected, missing]
LoopBodyDropMissing(items, st, track) ==
    LET picked == Pick(items, st.used_rating_keys, track)
    IN  IF picked # NoItem
        THEN [used_rating_keys |-> st.used_rating_keys \cup {picked.ratingKey},
              selected |-> Append(st.selected, picked),
              missing |-> st.missing]
        ELSE st

LoopBody(items, st, track) ==
    LET picked == Pick(items, st.used_rating_keys, track)
    IN  IF picked # NoItem
        THEN [used_rating_keys |-> st.used_rating_keys \cup {picked.ratingKey},
              selected |-> Append(st.selected, picked),
              missing |-> st.missing]
        ELSE [st EXCEPT !.missing = Append(st.missing, track)]

LoopInit == [used_rating_keys |-> {}, selected |-> <<>>, missing |-> <<>>]

RECURSIVE LoopOver(_, _, _)
LoopOver(items, st, tracks) ==
    IF tracks = <<>> THEN st
    ELSE LoopOver(items, LoopBody(items, st, Head(tracks)), Tail(tracks))

\* Lines 194-209.
PlanOf(items, st) ==
    LET trailing == SelectSeq(items,
                        LAMBDA item : item.ratingKey \notin st.used_rating_keys)
        desired  == st.selected \o trailing
    IN  [matches |-> Len(st.selected),
         missing_in_plex |-> st.missing,
         new_order_ids |-> [i \in 1..Len(desired) |-> desired[i].playlistItemID],
         new_order_titles |-> [i \in 1..Len(desired) |->
                                 [title |-> ItemTitle(desired[i]),
                                  artist |-> ItemArtist(desired[i])]],
         current_count |-> Len(items)]

\* Lines 146-153.
EmptyPlan(tracks) ==
    [matches |-> 0, missing_in_plex |-> tracks, new_order_ids |-> <<>>,
     new_order_titles |-> <<>>, current_count |-> 0]

build_reorder_plan(items, tracks) ==
    IF items = <<>> THEN EmptyPlan(tracks)
    ELSE PlanOf(items, LoopOver(items, LoopInit, tracks))

(***************************************************************************)
(* parse_apple_playlist_text.  The text holds no quote character, so every *)
(* physical line is one row of the csv reader.                             *)
(***************************************************************************)
IndexOf(s, ch) == CHOOSE i \in 1..Len(s) : s[i] = ch /\ \A j \in 1..(i - 1) : s[j] # ch

RECURSIVE SplitOn(_, _)
SplitOn(s, ch) ==
    IF ch \notin Range(s) THEN <<s>>
    ELSE <<SubSeq(s, 1, IndexOf(s, ch) - 1)>>
            \o SplitOn(SubSeq(s, IndexOf(s, ch) + 1, Len(s)), ch)

\* str.splitlines()
splitlines(text) ==
    IF text = <<>> THEN <<>>
    ELSE LET parts == SplitOn(text, "\n")
         IN  IF parts[Len(parts)] = <<>> THEN SubSeq(parts, 1, Len(parts) - 1)
             ELSE parts

\* lines = [line for line in text.splitlines() if line.strip()]
NonBlankLines(text) == SelectSeq(splitlines(text), LAMBDA line : Strip(line) # <<>>)

\* Lines 68-74.
DelimiterOf(first_line) ==
    IF "\t" \in Range(first_line) THEN "\t"
    ELSE IF ";" \in Range(first_line) THEN ";"
    ELSE ","

\* csv.reader: one row per physical line, an empty line giving the row [].
CsvRows(text, delimiter) ==
    LET ls == splitlines(text)
    IN  [i \in 1..Len(ls) |-> IF ls[i] = <<>> THEN <<>> ELSE SplitOn(ls[i], delimiter)]

\* (name or "").replace(BOM, "").strip(), normalized: the key of
\* normalized_fields for a header name.
HeaderKey(name) ==
    normalize_text(Strip(SelectSeq(name, LAMBDA ch : ch # "BOM")))

TitleAliases ==
    << <<"n","a","m","e">>, <<"t","i","t","l","e">>,
       <<"t","r","a","c","k"," ","n","a","m","e">>,
       <<"n","o","m","e">>, <<"t","i","t","o","l","o">> >>

ArtistAliases ==
    << <<"a","r","t","i","s","t">>,
       <<"a","r","t","i","s","t"," ","n","a","m","e">>,
       <<"a","r","t","i","s","t","a">> >>

\* field(*candidates): the column of the first alias that is a key of
\* normalized_fields, 0 for None.  Of several header names with one key the
\* dict keeps the last, and a row's dict keeps the last column of a name.
Field(fieldnames, candidates) ==
    LET present == SelectSeq(candidates,
                      LAMBDA c : \E i \in 1..Len(fieldnames) :
                                    HeaderKey(fieldnames[i]) = normalize_text(c))
    IN  IF present = <<>> THEN 0
        ELSE LET name == fieldnames[
                            CHOOSE i \in 1..Len(fieldnames) :
                               /\ HeaderKey(fieldnames[i]) = normalize_text(Head(present))
                               /\ \A j \in (i + 1)..Len(fieldnames) :
                                     HeaderKey(fieldnames[j]) # normalize_text(Head(present))]
             IN  CHOOSE i \in 1..Len(fieldnames) :
                    /\ fieldnames[i] = name
                    /\ \A j \in (i + 1)..Len(fieldnames) : fieldnames[j] # name

\* (row.get(column) or "").strip()
Cell(row, col) == IF col = 0 \/ col > Len(row) THEN <<>> ELSE Strip(row[col])

\* Lines 98-103: the records of the data rows (DictReader skips the rows []).
RECURSIVE TabularRecords(_, _, _)
TabularRecords(rows, title_col, artist_col) ==
    IF rows = <<>> THEN <<>>
    ELSE LET row == Head(rows)
             rest == TabularRecords(Tail(rows), title_col, artist_col)
         IN  IF row # <<>> /\ Cell(row, title_col) # <<>>
             THEN <<[title |-> Cell(row, title_col), artist |-> Cell(row, artist_col)]>> \o rest
             ELSE rest

\* The index at which " - " first occurs in s, 0 when it does not occur.
SepIndex(s) ==
    LET hits == {i \in 1..(Len(s) - 2) : s[i] = " " /\ s[i + 1] = "-" /\ s[i + 2] = " "}
    IN  IF hits = {} THEN 0 ELSE CHOOSE i \in hits : \A j \in hits : i <= j

\* Lines 108-115: the record of one line of the plain-line fallback.
PlainLineRecord(line) ==
    LET clean == Strip(line)
        at    == SepIndex(clean)
    IN  IF at # 0
        THEN [title |-> Strip(SubSeq(clean, at + 3, Len(clean))),
              artist |-> Strip(SubSeq(clean, 1, at - 1))]
        ELSE [title |-> clean, artist |-> <<>>]

\* Lines 107-115.
PlainLineParse(lines) == [i \in 1..Len(lines) |-> PlainLineRecord(lines[i])]

parse_apple_playlist_text(text) ==
    LET lines == NonBlankLines(text)
    IN  IF lines = <<>> THEN <<>>
        ELSE LET rows       == CsvRows(text, DelimiterOf(lines[1]))
                 fieldnames == Head(rows)
                 title_col  == Field(fieldnames, TitleAliases)
                 artist_col == Field(fieldnames, ArtistAliases)
                 records    == TabularRecords(Tail(rows), title_col, artist_col)
             IN  IF fieldnames = <<>> THEN <<>>
                 ELSE IF title_col = 0 THEN <<>>
                 ELSE IF records = <<>> THEN PlainLineParse(lines)
                 ELSE records

planVars == <<plex_items, imported_tracks, loop, k, before, plan, planPc>>

parseVars == <<raw_text, parsed, parsePc>>

appVars == <<UPLOAD_CACHE, remote, planFiles, pc, req, ordered_ids, playlist_items,
             idx, previous, resp, startRemote, liveStart, removed, applied, calls,
             failed>>

vars == <<planVars, parseVars, appVars>>

\* The variables of the other specifications, at rest.
PlanIdle ==
    /\ plex_items = <<>>
    /\ imported_tracks = <<>>
    /\ loop = LoopInit
    /\ k = 0
    /\ before = LoopInit
    /\ plan = [matches |-> -1]
    /\ planPc = "idle"

ParseIdle ==
    /\ raw_text = <<>>
    /\ parsed = <<>>
    /\ parsePc = "idle"

NoRequest == [kind |-> "none"]
NoResponse == [code |-> 0]

AppIdle ==
    /\ UPLOAD_CACHE = <<>>
    /\ remote = <<>>
    /\ planFiles = <<>>
    /\ pc = "idle"
    /\ req = NoRequest
    /\ ordered_ids = <<>>
    /\ playlist_items = <<>>
    /\ idx = 0
    /\ previous = 0
    /\ resp = NoResponse
    /\ startRemote = <<>>
    /\ liveStart = <<>>
    /\ removed = {}
    /\ applied = <<>>
    /\ calls = 0
    /\ failed = FALSE

NoPlan == [matches |-> -1]

(***************************************************************************)
(* Inputs of the model.                                                    *)
(***************************************************************************)
\* Imported track records (title required non-empty, artist may be empty).
TrackPool ==
    {   [title |-> <<"C","a","f","e">>, artist |-> <<"A","n","n">>],
        [title |-> <<" ","c","a","f","e_acute">>, artist |-> <<"B","O","B">>],
        [title |-> <<"C","a","f","e">>, artist |-> <<>>],
        [title |-> <<"Z","e","d">>, artist |-> <<"A","n","n">>] }

\* A playlist holding the tracks rks, in order.  playlistItemIDs are distinct
\* and unrelated to positions.
MkItems(rks) ==
    [i \in 1..Len(rks) |-> [playlistItemID |-> 20 - i, ratingKey |-> rks[i]]]

Snapshots == {MkItems(rks) : rks \in SeqsUpTo(RatingKeys, MaxRemote)}

ImportedSeqs == SeqsUpTo(TrackPool, MaxImported)

(***************************************************************************)
(* SpecPlan: build_reorder_plan(playlist, imported_tracks).                *)
(***************************************************************************)
InitPlan ==
    /\ plex_items \in Snapshots
    /\ imported_tracks \in ImportedSeqs
    /\ loop = LoopInit
    /\ k = 0
    /\ before = LoopInit
    /\ plan = NoPlan
    /\ planPc = "loop"
    /\ ParseIdle
    /\ AppIdle

\* if not plex_items: return {...}
PlanEmpty ==
    /\ planPc = "loop"
    /\ plex_items = <<>>
    /\ plan' = EmptyPlan(imported_tracks)
    /\ planPc' = "done"
    /\ UNCHANGED <<plex_items, imported_tracks, loop, k, before>>
    /\ UNCHANGED <<parseVars, appVars>>

\* for track in imported_tracks: ...
PlanTrack ==
    /\ planPc = "loop"
    /\ plex_items # <<>>
    /\ k < Len(imported_tracks)
    /\ loop' = LoopBody(plex_items, loop, imported_tracks[k + 1])
    /\ before' = loop
    /\ k' = k + 1
    /\ UNCHANGED <<plex_items, imported_tracks, plan, planPc>>
    /\ UNCHANGED <<parseVars, appVars>>

\* trailing, desired, return
PlanReturn ==
    /\ planPc = "loop"
    /\ plex_items # <<>>
    /\ k = Len(imported_tracks)
    /\ plan' = PlanOf(plex_items, loop)
    /\ planPc' = "done"
    /\ UNCHANGED <<plex_items, imported_tracks, loop, k, before>>
    /\ UNCHANGED <<parseVars, appVars>>

NextPlan == PlanEmpty \/ PlanTrack \/ PlanReturn

SpecPlan == InitPlan /\ [][NextPlan]_vars

(***************************************************************************)
(* Claims about build_reorder_plan.                                        *)
(***************************************************************************)
ItemIds(items) == {items[i].playlistItemID : i \in 1..Len(items)}

Ids(items) == [i \in 1..Len(items) |-> items[i].playlistItemID]

\* The item the latest loop iteration picked, NoItem when it reported the
\* track missing.
LastPick ==
    IF Len(loop.selected) > Len(before.selected)
    THEN loop.selected[Len(loop.selected)]
    ELSE NoItem

\* C1: new_order_ids is a permutation of exactly the playlistItemIDs of the
\* snapshot: every remote item's id appears exactly once, none is dropped and
\* none is invented, also when two items share a ratingKey.
C1_OrderIsPermutation ==
    planPc = "done" =>
        /\ Range(plan.new_order_ids) \subseteq ItemIds(plex_items)
        /\ \A id \in ItemIds(plex_items) :
              Cardinality({i \in 1..Len(plan.new_order_ids) :
                              plan.new_order_ids[i] = id}) = 1

\* C2: matches + len(missing_in_plex) = len(imported_tracks) for every input,
\* the empty snapshot included; after each iteration every processed track is
\* counted once, as selected or as missing.
C2_Conservation ==
    /\ Len(loop.selected) + Len(loop.missing) = k
    /\ planPc = "done" =>
          plan.matches + Len(plan.missing_in_plex) = Len(imported_tracks)

C2_Witness ==
    /\ planPc = "done"
    /\ plex_items # <<>>
    /\ plan.matches >= 1
    /\ Len(plan.missing_in_plex) >= 1

\* The track the latest loop iteration processed.
LastTrack == imported_tracks[k]

\* The items of the snapshot that carry the exact title+artist key of track
\* and that no earlier imported track selected.
ExactAvailable(track) ==
    SelectSeq(by_title_artist(plex_items, normalize_key(track.title, track.artist)),
              LAMBDA item : item \notin Range(before.selected))

\* The snapshot holds an item of the track's normalized title and of another
\* artist.
OtherArtistItem(track) ==
    \E i \in 1..Len(plex_items) :
        /\ ItemKey(plex_items[i])[1] = normalize_text(track.title)
        /\ ItemKey(plex_items[i])[2] # normalize_text(track.artist)

\* C5: when the snapshot holds items of one normalized title and different
\* artists and an imported track names the artist of one that is still
\* unselected, that exact title+artist item (the earliest such) is the one
\* selected for the track, also when an unselected item of the other artist
\* comes earlier in the remote list.
C5_ExactOverLoose ==
    (k >= 1 /\ OtherArtistItem(LastTrack) /\ ExactAvailable(LastTrack) # <<>>) =>
        LastPick = Head(ExactAvailable(LastTrack))

\* C6: new_order_ids is the ids of the selected items, in the order of the
\* imported tracks that selected them, followed by the id of every remote item
\* no imported track selected, in the playlist's original relative order.
C6_SelectedThenUnselected ==
    (planPc = "done" /\ plex_items # <<>>) =>
        plan.new_order_ids =
            Ids(loop.selected) \o
            Ids(SelectSeq(plex_items, LAMBDA item : item \notin Range(loop.selected)))

\* C7: first come, first served.  Each iteration selects the earliest remote
\* item of the looked-up key that no earlier track selected; hence identical
\* imported rows select the remote candidates of their key one after another in
\* remote order (exact-key candidates first, then the other candidates of the
\* title), and rows beyond the candidates are reported missing.
AllRowsIdentical == \A i \in 1..Len(imported_tracks) : imported_tracks[i] = imported_tracks[1]

CandidatesInOrder(track) ==
    LET exact == by_title_artist(plex_items, normalize_key(track.title, track.artist))
        loose == by_title(plex_items, normalize_text(track.title))
    IN  exact \o SelectSeq(loose, LAMBDA item : item \notin Range(exact))

C7_FirstComeFirstServed ==
    (planPc = "done" /\ plex_items # <<>> /\ imported_tracks # <<>> /\ AllRowsIdentical) =>
        LET cands == CandidatesInOrder(imported_tracks[1])
            n     == Len(imported_tracks)
            m     == IF n < Len(cands) THEN n ELSE Len(cands)
        IN  /\ loop.selected = SubSeq(cands, 1, m)
            /\ Len(loop.missing) = n - m

(***************************************************************************)
(* SpecParse: parse_apple_playlist_text(raw_text).                         *)
(***************************************************************************)
Beatles == <<"T","h","e"," ","B","e","a","t","l","e","s">>
Yesterday == <<"Y","e","s","t","e","r","d","a","y">>
HeaderName == <<"N","a","m","e">>
HeaderArtist == <<"A","r","t","i","s","t">>

LinePool ==
    {   HeaderName \o <<"\t">> \o HeaderArtist,
        Yesterday \o <<"\t">> \o Beatles,
        Beatles \o <<" ","-"," ">> \o Yesterday,
        HeaderName,
        <<>>,
        <<" ">>,
        HeaderArtist \o <<";"," ","T","I","T","O","L","O">>,
        Beatles \o <<";">> \o Yesterday,
        <<"H","e","l","p">>,
        <<"BOM">> \o HeaderName \o <<",">> \o HeaderArtist \o <<",">> \o HeaderName,
        Yesterday \o <<","," ">> \o Beatles \o <<" ",",","H","e","l","p">>,
        <<"\t">> \o Beatles }

RECURSIVE JoinLines(_)
JoinLines(ls) ==
    IF ls = <<>> THEN <<>>
    ELSE IF Len(ls) = 1 THEN ls[1]
    ELSE ls[1] \o <<"\n">> \o JoinLines(Tail(ls))

Texts == {JoinLines(ls) : ls \in SeqsUpTo(LinePool, MaxLines)}

InitParse ==
    /\ raw_text \in Texts
    /\ parsed = <<>>
    /\ parsePc = "call"
    /\ PlanIdle
    /\ AppIdle

Parse ==
    /\ parsePc = "call"
    /\ parsed' = parse_apple_playlist_text(raw_text)
    /\ parsePc' = "done"
    /\ UNCHANGED raw_text
    /\ UNCHANGED <<planVars, appVars>>

NextParse == Parse

SpecParse == InitParse /\ [][NextParse]_vars

\* The header row of the tabular parse names a title column.
HasTitleHeader(text) ==
    /\ NonBlankLines(text) # <<>>
    /\ LET rows == CsvRows(text, DelimiterOf(NonBlankLines(text)[1]))
       IN  Field(Head(rows), TitleAliases) # 0

\* C4: an input that is not a delimited table with a recognised title header
\* is parsed by the plain-line fallback, one record per non-blank line in line
\* order; "The Beatles - Yesterday" gives [{title: Yesterday, artist: The
\* Beatles}].
C4_PlainLineFallback ==
    (parsePc = "done" /\ ~HasTitleHeader(raw_text)) =>
        /\ parsed = PlainLineParse(NonBlankLines(raw_text))
        /\ raw_text = Beatles \o <<" ","-"," ">> \o Yesterday =>
              parsed = <<[title |-> Yesterday, artist |-> Beatles]>>

(***************************************************************************)
(* Spec: the upload, preview and reorder handlers.  Requests are served    *)
(* one at a time with PLEX_BASEURL and the token present; the input of     *)
(* upload is the text decode_uploaded_bytes returned.  Each call to the    *)
(* Plex server made by reorder (items, items, moveItem ...) is a step of   *)
(* its own; between the two items() calls another client may delete items. *)
(***************************************************************************)
RegularPlaylist == 1
SmartPlaylist == 2
UnknownPlaylist == 9

\* getattr(playlist, "smart", False)
IsSmart(playlist_id) == playlist_id = SmartPlaylist

UploadIds == 1..MaxUploads

\* Payload values: 0 stands for an absent or empty field.
UploadIdInputs == 0..MaxUploads
PlaylistIdInputs == {0, RegularPlaylist, SmartPlaylist, UnknownPlaylist}

CafeBob == <<" ","c","a","f","e_acute","\t","B","O","B">>
CafeAnn == <<"C","a","f","e","\t","A","n","n">>
TabHeader == HeaderName \o <<"\t">> \o HeaderArtist

UploadFiles ==
    <<  TabHeader \o <<"\n">> \o CafeBob \o <<"\n">> \o CafeAnn,
        TabHeader \o <<"\n">> \o CafeAnn \o <<"\n">> \o CafeAnn,
        HeaderName \o <<"\n","Z","e","d">> \o <<"\n","C","a","f","e">>,
        <<"H","e","l","p">> >>

\* parse_apple_playlist_text of each file that can be uploaded.
RECURSIVE ParseAll(_)
ParseAll(files) ==
    IF files = <<>> THEN <<>>
    ELSE <<parse_apple_playlist_text(Head(files))>> \o ParseAll(Tail(files))

ParsedUpload == ParseAll(UploadFiles)

Err(code, message) == [code |-> code, error |-> message, ok |-> FALSE]
Ok == [code |-> 200, error |-> "", ok |-> TRUE]

\* playlist.moveItem(item) / playlist.moveItem(item, after=previous): the
\* playlist with the item of that id moved to the head (after = 0) or right
\* behind the item of id after.
MoveItem(items, id, after) ==
    LET item == items[CHOOSE i \in 1..Len(items) : items[i].playlistItemID = id]
        rest == SelectSeq(items, LAMBDA it : it.playlistItemID # id)
        at   == IF after = 0 THEN 0
                ELSE CHOOSE i \in 1..Len(rest) : rest[i].playlistItemID = after
    IN  SubSeq(rest, 1, at) \o <<item>> \o SubSeq(rest, at + 1, Len(rest))

RECURSIVE ApplyMoves(_, _)
ApplyMoves(items, moves) ==
    IF moves = <<>> THEN items
    ELSE ApplyMoves(MoveItem(items, Head(moves)[1], Head(moves)[2]), Tail(moves))

\* The regular playlist when the service starts: empty, three distinct tracks
\* (the third matched by no upload), the same with the unmatched track first,
\* a track that occurs twice, and two tracks.
InitialPlaylists ==
    {   MkItems(<<>>), MkItems(<<1, 2, 4>>), MkItems(<<4, 1, 2>>), MkItems(<<1, 1, 2>>),
        MkItems(<<2, 1>>) }

\* The items of the smart playlist.
SmartItems ==
    << [playlistItemID |-> 31, ratingKey |-> 1], [playlistItemID |-> 32, ratingKey |-> 2] >>

Init ==
    /\ UPLOAD_CACHE = <<>>
    /\ \E items \in InitialPlaylists :
          remote = (RegularPlaylist :> items) @@ (SmartPlaylist :> SmartItems)
    /\ planFiles = <<>>
    /\ pc = "idle"
    /\ req = NoRequest
    /\ ordered_ids = <<>>
    /\ playlist_items = <<>>
    /\ idx = 0
    /\ previous = 0
    /\ resp = NoResponse
    /\ startRemote = <<>>
    /\ liveStart = <<>>
    /\ removed = {}
    /\ applied = <<>>
    /\ calls = 0
    /\ failed = FALSE
    /\ PlanIdle
    /\ ParseIdle

\* A request starts: the locals and the history of the previous one are gone.
NewRequest(r) ==
    /\ pc = "idle"
    /\ req' = r
    /\ playlist_items' = <<>>
    /\ idx' = 0
    /\ previous' = 0
    /\ liveStart' = <<>>
    /\ removed' = {}
    /\ applied' = <<>>
    /\ calls' = 0
    /\ failed' = FALSE
    /\ UNCHANGED <<planVars, parseVars>>

\* POST /api/upload; file 0 stands for a request without a file.
Upload ==
    \E file \in 0..Len(UploadFiles) :
        /\ NewRequest([kind |-> "upload"])
        /\ startRemote' = <<>>
        /\ ordered_ids' = <<>>
        /\ UNCHANGED <<remote, planFiles>>
        /\ pc' = "idle"
        /\ IF file = 0
           THEN /\ resp' = Err(400, "Missing file")
                /\ UNCHANGED UPLOAD_CACHE
           ELSE IF ParsedUpload[file] = <<>>
           THEN /\ resp' = Err(400, "Unsupported format")
                /\ UNCHANGED UPLOAD_CACHE
           ELSE \E upload_id \in UploadIds \ DOMAIN UPLOAD_CACHE :
                /\ UPLOAD_CACHE' = (upload_id :> ParsedUpload[file]) @@ UPLOAD_CACHE
                /\ resp' = Ok

\* The response preview gives before any plan is built, NoResponse if none.
PreviewRejection(upload_id, playlist_id) ==
    IF upload_id = 0 \/ upload_id \notin DOMAIN UPLOAD_CACHE
    THEN Err(400, "Upload not found or expired")
    ELSE IF playlist_id = 0 THEN Err(400, "Missing playlistId")
    ELSE IF playlist_id \notin DOMAIN remote THEN Err(404, "Playlist not found")
    ELSE IF IsSmart(playlist_id)
    THEN Err(400, "Selected Plex playlist is smart and cannot be manually reordered")
    ELSE NoResponse

\* POST /api/preview
Preview ==
    \E upload_id \in UploadIdInputs, playlist_id \in PlaylistIdInputs :
        /\ NewRequest([kind |-> "preview", upload_id |-> upload_id,
                       playlist_id |-> playlist_id, confirm |-> FALSE])
        /\ startRemote' = <<>>
        /\ ordered_ids' = <<>>
        /\ UNCHANGED <<UPLOAD_CACHE, remote>>
        /\ pc' = "idle"
        /\ IF PreviewRejection(upload_id, playlist_id) # NoResponse
           THEN /\ resp' = PreviewRejection(upload_id, playlist_id)
                /\ UNCHANGED planFiles
           ELSE /\ planFiles' =
                      (upload_id :> build_reorder_plan(remote[playlist_id],
                                        UPLOAD_CACHE[upload_id]).new_order_ids)
                      @@ planFiles
                /\ resp' = Ok

\* The response reorder gives before any plan is built, NoResponse if none.
ReorderRejectionNoConfirm(upload_id, playlist_id, confirm) ==
    IF upload_id = 0 \/ upload_id \notin DOMAIN UPLOAD_CACHE
    THEN Err(400, "Upload not found or expired")
    ELSE IF playlist_id = 0 THEN Err(400, "Missing playlistId")
    ELSE IF playlist_id \notin DOMAIN remote THEN Err(400, "NotFound")
    ELSE IF IsSmart(playlist_id)
    THEN Err(400, "Selected Plex playlist is smart and cannot be manually reordered")
    ELSE NoResponse

ReorderRejection(upload_id, playlist_id, confirm) ==
    IF ~confirm THEN Err(400, "Confirmation required")
    ELSE IF upload_id = 0 \/ upload_id \notin DOMAIN UPLOAD_CACHE
    THEN Err(400, "Upload not found or expired")
    ELSE IF playlist_id = 0 THEN Err(400, "Missing playlistId")
    ELSE IF playlist_id \notin DOMAIN remote THEN Err(400, "NotFound")
    ELSE IF IsSmart(playlist_id)
    THEN Err(400, "Selected Plex playlist is smart and cannot be manually reordered")
    ELSE NoResponse

\* POST /api/reorder, up to ordered_ids = plan["new_order_ids"].
Reorder ==
    \E upload_id \in UploadIdInputs, playlist_id \in PlaylistIdInputs, confirm \in BOOLEAN :
        /\ NewRequest([kind |-> "reorder", upload_id |-> upload_id,
                       playlist_id |-> playlist_id, confirm |-> confirm])
        /\ UNCHANGED <<UPLOAD_CACHE, remote, planFiles>>
        /\ IF ReorderRejection(upload_id, playlist_id, confirm) # NoResponse
           THEN /\ resp' = ReorderRejection(upload_id, playlist_id, confirm)
                /\ startRemote' = <<>>
                /\ ordered_ids' = <<>>
                /\ pc' = "idle"
           ELSE /\ resp' = NoResponse
                /\ startRemote' = remote[playlist_id]
                /\ ordered_ids' = build_reorder_plan(remote[playlist_id],
                                      UPLOAD_CACHE[upload_id]).new_order_ids
                /\ pc' = "planned"


reorderLocals == <<ordered_ids, playlist_items, idx, previous>>

\* Another client of the Plex server deletes an item of the playlist between
\* the two playlist.items() calls of reorder.
OtherClientDeletes ==
    /\ pc = "planned"
    /\ Cardinality(removed) < MaxDeletes
    /\ \E i \in 1..Len(remote[req.playlist_id]) :
          /\ remote' = [remote EXCEPT ![req.playlist_id] =
                           SubSeq(@, 1, i - 1) \o SubSeq(@, i + 1, Len(@))]
          /\ removed' = removed \cup {remote[req.playlist_id][i].playlistItemID}
    /\ UNCHANGED <<UPLOAD_CACHE, planFiles, pc, req, reorderLocals, resp, startRemote,
                   liveStart, applied, calls, failed, planVars, parseVars>>

\* playlist_items = {item.playlistItemID: item for item in playlist.items()}
\* previous = None
ReorderFetchLive ==
    /\ pc = "planned"
    /\ playlist_items' =
          [id \in ItemIds(remote[req.playlist_id]) |->
              CHOOSE item \in Range(remote[req.playlist_id]) : item.playlistItemID = id]
    /\ previous' = 0
    /\ idx' = 1
    /\ liveStart' = remote[req.playlist_id]
    /\ pc' = "moving"
    /\ UNCHANGED <<UPLOAD_CACHE, remote, planFiles, req, ordered_ids, resp, startRemote,
                   removed, applied, calls, failed, planVars, parseVars>>

\* if not item: continue
ReorderSkip ==
    /\ pc = "moving"
    /\ idx <= Len(ordered_ids)
    /\ ordered_ids[idx] \notin DOMAIN playlist_items
    /\ idx' = idx + 1
    /\ UNCHANGED <<UPLOAD_CACHE, remote, planFiles, pc, req, ordered_ids, playlist_items,
                   previous, resp, startRemote, liveStart, removed, applied, calls,
                   failed, planVars, parseVars>>

\* moveItem(item) / moveItem(item, after=previous) returns; previous = item
ReorderMove ==
    /\ pc = "moving"
    /\ idx <= Len(ordered_ids)
    /\ ordered_ids[idx] \in DOMAIN playlist_items
    /\ remote' = [remote EXCEPT ![req.playlist_id] =
                     MoveItem(@, ordered_ids[idx], previous)]
    /\ previous' = ordered_ids[idx]
    /\ idx' = idx + 1
    /\ applied' = Append(applied, <<ordered_ids[idx], previous>>)
    /\ calls' = calls + 1
    /\ UNCHANGED <<UPLOAD_CACHE, planFiles, pc, req, ordered_ids, playlist_items, resp,
                   startRemote, liveStart, removed, failed, planVars, parseVars>>

\* moveItem raises: except Exception as exc: return jsonify({"error": ...}), 400
ReorderMoveRaisesSwallowed ==
    /\ pc = "moving"
    /\ idx <= Len(ordered_ids)
    /\ ordered_ids[idx] \in DOMAIN playlist_items
    /\ calls' = calls + 1
    /\ failed' = TRUE
    /\ idx' = idx + 1
    /\ UNCHANGED <<UPLOAD_CACHE, remote, planFiles, pc, req, ordered_ids, playlist_items,
                   previous, resp, startRemote, liveStart, removed, applied, planVars,
                   parseVars>>

ReorderMoveRaises ==
    /\ pc = "moving"
    /\ idx <= Len(ordered_ids)
    /\ ordered_ids[idx] \in DOMAIN playlist_items
    /\ calls' = calls + 1
    /\ failed' = TRUE
    /\ resp' = Err(400, "moveItem failed")
    /\ pc' = "idle"
    /\ UNCHANGED <<UPLOAD_CACHE, remote, planFiles, req, reorderLocals, startRemote,
                   liveStart, removed, applied, planVars, parseVars>>

\* The loop is over: return jsonify({"ok": True, ...})
ReorderDone ==
    /\ pc = "moving"
    /\ idx > Len(ordered_ids)
    /\ resp' = Ok
    /\ pc' = "idle"
    /\ UNCHANGED <<UPLOAD_CACHE, remote, planFiles, req, reorderLocals, startRemote,
                   liveStart, removed, applied, calls, failed, planVars, parseVars>>

Next ==
    \/ Upload
    \/ Preview
    \/ Reorder
    \/ OtherClientDeletes
    \/ ReorderFetchLive
    \/ ReorderSkip
    \/ ReorderMove
    \/ ReorderMoveRaises
    \/ ReorderDone

Spec == Init /\ [][Next]_vars

\* The server goes on serving the requests it is sent.
FairSpec == Spec /\ WF_vars(Next)

(***************************************************************************)
(* Claims about the handlers.                                              *)
(***************************************************************************)
\* ordered_ids restricted to the ids of the live item map.
LiveTarget == SelectSeq(ordered_ids, LAMBDA id : id \in DOMAIN playlist_items)

\* C3: when the move loop runs to completion with every move succeeding, the
\* playlist's final order is ordered_ids restricted to the ids of the live item
\* map; an id absent from the live map is skipped, and the next move is placed
\* after the same item as if the id had not been there.
C3_FinalOrderIsTarget ==
    (pc = "idle" /\ req.kind = "reorder" /\ resp = Ok) =>
        /\ Ids(remote[req.playlist_id]) = LiveTarget
        /\ applied = [j \in 1..Len(LiveTarget) |->
                        <<LiveTarget[j], IF j = 1 THEN 0 ELSE LiveTarget[j - 1]>>]

\* C8: when a move call fails in the middle of the move loop, no further move
\* is issued in that request, the moves already applied stay applied, the
\* request ends with an error response, and the playlist holds the items it
\* held when the request began (those another client deleted aside).
C8_FailureStopsWithoutRollback ==
    failed =>
        /\ pc = "idle"
        /\ resp.code = 400 /\ ~resp.ok /\ resp.error # ""
        /\ calls = Len(applied) + 1
        /\ remote[req.playlist_id] = ApplyMoves(liveStart, applied)
        /\ ItemIds(remote[req.playlist_id]) = ItemIds(startRemote) \ removed

C8_Witness ==
    /\ failed
    /\ Len(applied) >= 1
    /\ remote[req.playlist_id] # liveStart
    /\ idx < Len(ordered_ids)

\* C9: every entry of the upload cache expires: an upload id that is in
\* UPLOAD_CACHE is later no longer in it.
C9_UploadsExpire ==
    \A upload_id \in UploadIds :
        (upload_id \in DOMAIN UPLOAD_CACHE) ~> (upload_id \notin DOMAIN UPLOAD_CACHE)

\* The latest request is a confirmed reorder of a known upload on a playlist
\* that exists and is not smart.
MoveAllowed ==
    /\ req.kind = "reorder"
    /\ req.confirm
    /\ req.upload_id \in DOMAIN UPLOAD_CACHE
    /\ req.playlist_id \in DOMAIN remote
    /\ ~IsSmart(req.playlist_id)

\* C10: a move is issued only inside a reorder request with confirm true, an
\* upload id of the cache and a playlist that is not smart; no other step of
\* the service (preview, a rejected reorder, upload) changes a playlist.
C10_MovesOnlyInConfirmedReorder ==
    [][ /\ calls' > calls => MoveAllowed
        /\ remote' # remote => (removed' # removed \/ (MoveAllowed /\ calls' = calls + 1))
      ]_vars

C10_Witness ==
    /\ MoveAllowed
    /\ calls >= 1
    /\ remote[req.playlist_id] # startRemote

=============================================================================
